---- MODULE Spec2Model ----
(***************************************************************************)
(* A model of core/models.py: the dynamic-model registry (Table.get_model), *)
(* the schema operations of DynamicModelMixin and the query layer of       *)
(* DynamicModelQuerySet (apply_filters, apply_ordering, count).            *)
(*                                                                         *)
(* Field names are sequences of one-character strings, so that str.replace,*)
(* str.strip and str.lower are computed and not assumed.                   *)
(***************************************************************************)
EXTENDS Integers, Sequences, FiniteSets, TLC

VARIABLES
    extra,        \* Model.extra of the queried model: filtering, ordering, search
    columns,      \* the names filter() resolves on the queried model
    ordQuery,     \* apply_ordering: the `query` argument of the last call
    ordResult,    \* apply_ordering: what the returned queryset is ordered by
    params,       \* apply_filters: the `filtering` argument of the last call
    filtResult,   \* apply_filters: the predicates of the returned queryset
    tables,       \* the Table rows with their Field rows, by Table.id
    registry,     \* DYNAMIC_MODEL_REGISTRY: Table.id -> model class
    attempted,    \* history: the row at the last get_model call that found no entry or had cache=False
    compiledFrom, \* history: the row at the last such call that built a class
    lastCall,     \* history: the last get_model call and the registry before it
    ret,          \* what the last get_model call returned or raised
    cls,          \* the model class the schema and count operations act on
    meta_indexes, \* cls._meta.indexes
    db,           \* the physical table: existence, indexes, rows, statistics
    qs_count,     \* the _count attribute of each queryset instance
    first_count,  \* history: what the first count() of each instance returned
    createRaised, \* history: a create_table(create_indexes=False) has raised
    lastOp        \* history: the last operation and its outcome

queryVars == <<extra, columns, ordQuery, ordResult, params, filtResult>>

registryVars == <<tables, registry, attempted, compiledFrom, lastCall, ret>>

schemaVars ==
    <<cls, meta_indexes, db, qs_count, first_count, createRaised, lastOp>>

vars == <<queryVars, registryVars, schemaVars>>

\* ------------------------------------------------------------------ bounds

MaxOrdering == 2
MaxFiltering == 2
MaxQuery == 2
MaxRows == 2

\* ----------------------------------------------------------------- strings

None == "None"

\* The result of str.lower on one character.
LowerChar(c) ==
    IF c = "U" THEN "u" ELSE IF c = "A" THEN "a" ELSE c

\* str.lower
Lower(s) == [i \in DOMAIN s |-> LowerChar(s[i])]

\* str.replace('-', ''): every hyphen is removed, wherever it stands.
IsNotHyphen(c) == c # "-"

RemoveHyphens(s) == SelectSeq(s, IsNotHyphen)

\* str.strip: leading and trailing white space removed.
RECURSIVE LStrip(_)
LStrip(s) ==
    IF s # <<>> /\ Head(s) = " " THEN LStrip(Tail(s)) ELSE s

RECURSIVE RStrip(_)
RStrip(s) ==
    IF s # <<>> /\ s[Len(s)] = " " THEN RStrip(SubSeq(s, 1, Len(s) - 1)) ELSE s

Strip(s) == RStrip(LStrip(s))

\* The sequences over S of length at most n.
SeqsUpTo(S, n) == UNION {[1..k -> S] : k \in 0..n}

Range(s) == {s[i] : i \in DOMAIN s}

\* -------------------------------------------------------------- name domains

\* Column names of the queried table. Django field names are case sensitive.
ColumnNames == {<<"a">>, <<"U">>}

Desc(c) == <<"-">> \o c

\* Table.ordering entries: a column, or a column with the descending marker.
OrderingNames == ColumnNames \cup {Desc(c) : c \in ColumnNames}

\* What a caller may pass as an ordering field.
RequestNames ==
    {<<"a">>, <<"-", "a">>, <<"U">>, <<"u">>, <<"a", "-">>, <<"z">>}

\* --------------------------------------------------------- apply_ordering

\* clean_allowed: the allowed names with hyphens removed, stripped, lowered.
CleanAllowed(model_ordering, model_filtering) ==
    {Lower(Strip(RemoveHyphens(field))) :
        field \in Range(model_ordering \o model_filtering)}

\* ordering_query: the requested fields kept, in the caller's order.  The
\* requested name loses its hyphens but is neither stripped nor lowered.
OrderingQuery(query, model_ordering, model_filtering) ==
    LET clean_allowed == CleanAllowed(model_ordering, model_filtering)
        Kept(field) == RemoveHyphens(field) \in clean_allowed
    IN  SelectSeq(query, Kept)

\* The arguments of the order_by call made, <<>> when none is made.
ApplyOrderingResult(query, model_ordering, model_filtering) ==
    LET ordering_query == OrderingQuery(query, model_ordering, model_filtering)
    IN  IF ordering_query # <<>> THEN ordering_query
        ELSE IF model_ordering # <<>> THEN model_ordering
        ELSE <<>>

\* Where the arguments of order_by come from.
OrderingSource(query, model_ordering, model_filtering) ==
    LET ordering_query == OrderingQuery(query, model_ordering, model_filtering)
    IN  IF ordering_query # <<>> THEN "request"
        ELSE IF model_ordering # <<>> THEN "default"
        ELSE "none"

NoQuery == [called |-> FALSE, query |-> <<>>]

NotOrdered ==
    [called |-> FALSE, kept |-> <<>>, source |-> "none", order_by |-> <<>>]

apply_ordering(query) ==
    /\ ~ordQuery.called
    /\ ordQuery' = [called |-> TRUE, query |-> query]
    /\ ordResult' =
          [called |-> TRUE,
           kept |-> OrderingQuery(query, extra.ordering, extra.filtering),
           source |-> OrderingSource(query, extra.ordering, extra.filtering),
           order_by |-> ApplyOrderingResult(query, extra.ordering,
                                           extra.filtering)]
    /\ UNCHANGED <<extra, columns, params, filtResult, registryVars, schemaVars>>

\* ---------------------------------------------------------- apply_filters

SearchKey == <<"s", "e", "a", "r", "c", "h">>

\* Keys a caller may send: the columns, the search key and an unknown key.
ParamKeys == ColumnNames \cup {SearchKey, <<"z">>}

\* Values a caller may send: null, the empty string, a non-empty string.
ParamValues == {None, "", "v"}

\* The caller's mappings: any subset of the keys, each with a value.
ParamMappings == UNION {[K -> ParamValues] : K \in SUBSET ParamKeys}

\* dict.get(key, None)
Get(mapping, key) == IF key \in DOMAIN mapping THEN mapping[key] ELSE None

\* Python truthiness of a parameter value: neither None nor the empty string.
Truthy(v) == v # None /\ v # ""

EqualityPredicate(field_name, value) ==
    [kind |-> "eq", field |-> field_name, value |-> value]

SearchPredicate(search_query) ==
    [kind |-> "search", field |-> <<"search_data">>, value |-> search_query]

\* The test with the None check dropped: every filtering name is filtered on.
HasValueAlways(value) == TRUE

\* The test of the loop body: the value of the key is not None.
HasValue(value) == value # None

\* The loop over model_filtering: one filter() call per name whose value is
\* not None, in the order of the list.
RECURSIVE EqualityPredicates(_, _)
EqualityPredicates(model_filtering, filtering) ==
    IF model_filtering = <<>> THEN <<>>
    ELSE LET field_name == Head(model_filtering)
             value == Get(filtering, field_name)
             rest == EqualityPredicates(Tail(model_filtering), filtering)
         IN  IF HasValue(value)
             THEN <<EqualityPredicate(field_name, value)>> \o rest
             ELSE rest

\* filter() raises FieldError for a keyword that is no field of the model.
RaisesFieldError(predicates, model_columns) ==
    \E i \in DOMAIN predicates :
        /\ predicates[i].kind = "eq"
        /\ predicates[i].field \notin model_columns

ApplyFiltersResult(filtering, model_extra, model_columns) ==
    LET model_filtering == model_extra.filtering
        equalities == EqualityPredicates(model_filtering, filtering)
        search_query == Get(filtering, SearchKey)
        search_fields == model_extra.search
        searching == Truthy(search_query) /\ search_fields # <<>>
    IN  \* extra['filtering'] is `filtering or []`, a list and never None
        IF RaisesFieldError(equalities, model_columns)
        THEN [status |-> "FieldError", predicates |-> <<>>]
        ELSE [status |-> "ok",
              predicates |-> IF searching
                             THEN equalities \o <<SearchPredicate(search_query)>>
                             ELSE equalities]

NoParams == [called |-> FALSE, filtering |-> <<>>]

NoFilters == [status |-> "none", predicates |-> <<>>]

apply_filters(filtering) ==
    /\ ~params.called
    /\ params' = [called |-> TRUE, filtering |-> filtering]
    /\ filtResult' = ApplyFiltersResult(filtering, extra, columns)
    /\ UNCHANGED <<extra, columns, ordQuery, ordResult, registryVars, schemaVars>>

\* ---------------------------------------------------------- Table.get_model

\* The keys of FIELD_TYPES.
FIELD_TYPES ==
    {"binary", "bool", "date", "datetime", "decimal", "email", "float",
     "integer", "json", "string", "text"}

\* Field.field_class: FIELD_TYPES[self.type] raises KeyError for another tag.
FieldClassRaises(type) == type \notin FIELD_TYPES

\* The dict comprehension over self.fields raises when a field_class does.
FieldsRaise(table) ==
    \E name \in DOMAIN table.field_types :
        FieldClassRaises(table.field_types[name])

\* The model's attributes: the Field rows' classes and the search vector.
ModelFields(table) ==
    [name \in DOMAIN table.field_types \cup {<<"search_data">>} |->
        IF name = <<"search_data">> THEN "SearchVectorField"
        ELSE table.field_types[name]]

Index(field_names) == [kind |-> "Index", fields |-> field_names]

GinIndex == [kind |-> "GinIndex", fields |-> <<<<"search_data">>>>]

\* The filtering loop with the test left out: an index for every name.
IndexSkippedNever(ordering, field_name) == FALSE

\* `if ordering == [field_name]: continue`
IndexSkipped(ordering, field_name) == ordering = <<field_name>>

\* The loop over filtering: one single-column index per name not skipped.
RECURSIVE FilteringIndexes(_, _)
FilteringIndexes(ordering, filtering) ==
    IF filtering = <<>> THEN <<>>
    ELSE LET field_name == Head(filtering)
             rest == FilteringIndexes(ordering, Tail(filtering))
         IN  IF IndexSkipped(ordering, field_name) THEN rest
             ELSE <<Index(<<field_name>>)>> \o rest

\* The `indexes` list of get_model.
ModelIndexes(ordering, filtering, search) ==
    (IF ordering # <<>> THEN <<Index(ordering)>> ELSE <<>>)
    \o FilteringIndexes(ordering, filtering)
    \o (IF search # <<>> THEN <<GinIndex>> ELSE <<>>)

\* The class get_model builds.  `self.ordering or []` and its like turn a
\* null column into the empty list, which is how a null column is held here.
BuildModel(table) ==
    [fields |-> ModelFields(table),
     ordering |-> table.ordering,
     indexes |-> ModelIndexes(table.ordering, table.filtering, table.search),
     extra |-> [filtering |-> table.filtering,
                ordering |-> table.ordering,
                search |-> table.search]]

\* The test with the `cache` argument ignored.
CacheHitIgnoringFlag(id, cache) == id \in DOMAIN registry

\* `if cache and self.id in DYNAMIC_MODEL_REGISTRY`
CacheHit(id, cache) == cache /\ id \in DOMAIN registry

\* The registry with Model stored under id.
Store(reg, id, Model) ==
    [k \in DOMAIN reg \cup {id} |-> IF k = id THEN Model ELSE reg[k]]

\* The registry after a failed call had the entry been removed before the
\* class is built.
RegistryAfterKeyErrorEvicting(id) ==
    [k \in DOMAIN registry \ {id} |-> registry[k]]

\* The registry after a call whose compilation raised KeyError: the
\* assignment that stores the class is not reached.
RegistryAfterKeyError(id) == registry

Returned(Model) == [raised |-> "no", model |-> <<Model>>]

Raised(error) == [raised |-> error, model |-> <<>>]

get_model(id, cache) ==
    /\ id \in DOMAIN tables
    /\ lastCall' = [called |-> TRUE, id |-> id, cache |-> cache,
                    outcome |-> IF CacheHit(id, cache) THEN "cached"
                                ELSE IF FieldsRaise(tables[id]) THEN "KeyError"
                                ELSE "compiled",
                    registry_before |-> registry]
    /\ IF CacheHit(id, cache)
       THEN /\ ret' = Returned(registry[id])
            /\ registry' = registry
       ELSE IF FieldsRaise(tables[id])
       THEN /\ ret' = Raised("KeyError")
            /\ registry' = RegistryAfterKeyError(id)
       ELSE /\ ret' = Returned(BuildModel(tables[id]))
            /\ registry' = Store(registry, id, BuildModel(tables[id]))
    \* history, kept by what the caller passed and found, not by the branch taken
    /\ attempted' = IF id \notin DOMAIN registry \/ ~cache
                    THEN Store(attempted, id, tables[id])
                    ELSE attempted
    /\ compiledFrom' = IF (id \notin DOMAIN registry \/ ~cache)
                          /\ ~FieldsRaise(tables[id])
                       THEN Store(compiledFrom, id, tables[id])
                       ELSE compiledFrom
    /\ UNCHANGED <<tables, queryVars, schemaVars>>

\* ------------------------------------------------- edits of the metadata rows

\* Table.ordering is saved with a new value.
SaveTableOrdering(id, ordering) ==
    /\ id \in DOMAIN tables
    /\ tables[id].ordering # ordering
    /\ tables' = [tables EXCEPT ![id].ordering = ordering]
    /\ UNCHANGED <<registry, attempted, compiledFrom, lastCall, ret, queryVars,
                   schemaVars>>

\* Field.type of the Field named name is saved with a new value; the choices
\* of the column are enforced by forms only, not by save().
SaveFieldType(id, name, type) ==
    /\ id \in DOMAIN tables
    /\ name \in DOMAIN tables[id].field_types
    /\ tables[id].field_types[name] # type
    /\ tables' = [tables EXCEPT ![id].field_types[name] = type]
    /\ UNCHANGED <<registry, attempted, compiledFrom, lastCall, ret, queryVars,
                   schemaVars>>

\* ------------------------------------------------------ the physical table

\* pg_class.reltuples of a table that was never vacuumed or analysed: 0, or
\* -1 from PostgreSQL 14 on.
Placeholders == {0, -1}

NoTable ==
    [exists |-> FALSE, indexes |-> <<>>, rows |-> 0, matching |-> 0,
     reltuples |-> 0, analysed |-> FALSE]

\* The table CREATE TABLE leaves, with the indexes created along with it.
NewTable(indexes, placeholder) ==
    [exists |-> TRUE, indexes |-> indexes, rows |-> 0, matching |-> 0,
     reltuples |-> placeholder, analysed |-> FALSE]

Op(name, raised) ==
    [op |-> name, raised |-> raised, create_indexes |-> FALSE,
     db_failed |-> FALSE, indexes_before |-> <<>>, q |-> "", path |-> "",
     before |-> <<>>, result |-> <<>>]

\* Two indexes of one table with the same fields get the same name.
HasDuplicates(indexes) == Cardinality(Range(indexes)) # Len(indexes)

\* ------------------------------------------------------- DynamicModelMixin

\* Model._meta.indexes after create_table when `finally` is left out: an
\* exception of the DDL skips the restoring assignment.
IndexesRestoredUnlessRaised(saved, create_indexes, raised) ==
    IF raised /\ ~create_indexes THEN <<>> ELSE saved

\* Model._meta.indexes after create_table: `finally` restores the saved list
\* on the normal return and on an exception alike.
IndexesRestored(saved, create_indexes, raised) == saved

\* create_model raises when the relation exists, or when the database fails.
create_table(create_indexes, ddl_fails, placeholder) ==
    LET indexes == meta_indexes
        during == IF create_indexes THEN meta_indexes ELSE <<>>
        raised == db.exists \/ ddl_fails \/ HasDuplicates(during)
    IN  /\ db' = IF raised THEN db ELSE NewTable(during, placeholder)
        /\ meta_indexes' = IndexesRestored(indexes, create_indexes, raised)
        /\ createRaised' = (createRaised \/ (raised /\ ~create_indexes))
        /\ lastOp' = [Op("create_table", raised) EXCEPT
                         !.create_indexes = create_indexes,
                         !.db_failed = ddl_fails,
                         !.indexes_before = indexes]
        /\ UNCHANGED <<cls, qs_count, first_count, queryVars, registryVars>>

\* add_index for each index of Model._meta.indexes, in one schema editor:
\* it raises when the table is missing or an index of that name exists, and
\* nothing is kept then.  CREATE INDEX refreshes the table's reltuples.
create_indexes(ddl_fails) ==
    LET raised == /\ meta_indexes # <<>>
                  /\ \/ ~db.exists
                     \/ ddl_fails
                     \/ Range(meta_indexes) \cap Range(db.indexes) # {}
                     \/ HasDuplicates(meta_indexes)
    IN  /\ db' = IF raised \/ meta_indexes = <<>> THEN db
                 ELSE [db EXCEPT !.indexes = db.indexes \o meta_indexes,
                                 !.reltuples = db.rows]
        /\ lastOp' = [Op("create_indexes", raised) EXCEPT
                         !.db_failed = ddl_fails,
                         !.indexes_before = db.indexes]
        /\ UNCHANGED <<cls, meta_indexes, qs_count, first_count,
                       createRaised, queryVars, registryVars>>

\* VACUUM ANALYSE sets reltuples to the number of rows.
analyse_table ==
    /\ db' = IF db.exists
             THEN [db EXCEPT !.reltuples = db.rows, !.analysed = TRUE]
             ELSE db
    /\ lastOp' = Op("analyse_table", ~db.exists)
    /\ UNCHANGED <<cls, meta_indexes, qs_count, first_count, createRaised,
                   queryVars, registryVars>>

\* delete_model drops the table and its indexes; it raises when there is none.
delete_table ==
    /\ db' = NoTable
    /\ lastOp' = Op("delete_table", ~db.exists)
    /\ UNCHANGED <<cls, meta_indexes, qs_count, first_count, createRaised,
                   queryVars, registryVars>>

\* ------------------------------------------------------ rows of the table

\* A row is loaded; `matches` says whether the filter of the filtered
\* queryset selects it.  reltuples is left as it is.
InsertRow(matches) ==
    /\ db.exists
    /\ db.rows < MaxRows
    /\ db' = [db EXCEPT !.rows = db.rows + 1,
                        !.matching = db.matching + (IF matches THEN 1 ELSE 0)]
    /\ lastOp' = Op("insert", FALSE)
    /\ UNCHANGED <<cls, meta_indexes, qs_count, first_count, createRaised,
                   queryVars, registryVars>>

DeleteRow(matches) ==
    /\ db.exists
    /\ IF matches THEN db.matching > 0 ELSE db.rows > db.matching
    /\ db' = [db EXCEPT !.rows = db.rows - 1,
                        !.matching = db.matching - (IF matches THEN 1 ELSE 0)]
    /\ lastOp' = Op("delete", FALSE)
    /\ UNCHANGED <<cls, meta_indexes, qs_count, first_count, createRaised,
                   queryVars, registryVars>>

\* ------------------------------------------------ DynamicModelQuerySet.count

\* The queryset instances: Model.objects.all(), and one that filter() was
\* called on, whose query.where has a child.
QuerySets == {"all", "filtered"}

HasWhere(q) == q = "filtered"

\* The memo test by truth value: a count of 0 is not taken as stored.
MemoizedIfTruthy(_count) == _count # <<>> /\ _count # <<0>>

\* `getattr(self, '_count', None) is not None`; <<>> stands for None.
Memoized(_count) == _count # <<>>

\* The catalog read whatever the query holds.
ReadsCatalogAlways(q) == TRUE

\* `if not query.where`
ReadsCatalog(q) == ~HasWhere(q)

\* super().count(): SELECT COUNT(*) with the query's WHERE clause.
ExactCount(q) == IF HasWhere(q) THEN db.matching ELSE db.rows

\* The catalog lookup raises when the statement fails, and when pg_class
\* holds no row of the table: fetchone() is None then.
LookupRaises(catalog_fails) == catalog_fails \/ ~db.exists

\* How count() gets its value.
CountPath(q, catalog_fails) ==
    IF Memoized(qs_count[q]) THEN "memo"
    ELSE IF ReadsCatalog(q)
    THEN IF LookupRaises(catalog_fails) THEN "catalog_then_exact"
         ELSE "catalog"
    ELSE "exact"

count(q, catalog_fails) ==
    LET path == CountPath(q, catalog_fails)
        \* COUNT(*) on a table that does not exist raises
        raised == path \in {"catalog_then_exact", "exact"} /\ ~db.exists
        value == IF path = "memo" THEN qs_count[q][1]
                 ELSE IF path = "catalog" THEN db.reltuples
                 ELSE ExactCount(q)
    IN  /\ qs_count' = IF raised THEN qs_count
                       ELSE [qs_count EXCEPT ![q] = <<value>>]
        /\ first_count' = IF raised \/ first_count[q] # <<>> THEN first_count
                          ELSE [first_count EXCEPT ![q] = <<value>>]
        /\ lastOp' = [Op("count", raised) EXCEPT
                         !.db_failed = catalog_fails,
                         !.q = q,
                         !.path = path,
                         !.before = qs_count[q],
                         !.result = IF raised THEN <<>> ELSE <<value>>]
        /\ UNCHANGED <<cls, meta_indexes, db, createRaised, queryVars,
                       registryVars>>

\* The manager hands out a new instance, which has no _count.
NewQuerySet(q) ==
    /\ qs_count[q] # <<>>
    /\ qs_count' = [qs_count EXCEPT ![q] = <<>>]
    /\ first_count' = [first_count EXCEPT ![q] = <<>>]
    /\ lastOp' = [Op("new_queryset", FALSE) EXCEPT !.q = q]
    /\ UNCHANGED <<cls, meta_indexes, db, createRaised, queryVars,
                   registryVars>>

\* ------------------------------------------------------------ start states

NoModel ==
    [fields |-> <<>>, ordering |-> <<>>, indexes |-> <<>>,
     extra |-> [filtering |-> <<>>, ordering |-> <<>>, search |-> <<>>]]

SchemaStart ==
    /\ meta_indexes = cls.indexes
    /\ db = NoTable
    /\ qs_count = [q \in QuerySets |-> <<>>]
    /\ first_count = [q \in QuerySets |-> <<>>]
    /\ createRaised = FALSE
    /\ lastOp = Op("none", FALSE)

SchemaIdle ==
    /\ cls = NoModel
    /\ SchemaStart

\* ------------------------------------------- the registry's specifications

NoCall ==
    [called |-> FALSE, id |-> 0, cache |-> FALSE, outcome |-> "none",
     registry_before |-> <<>>]

\* The Table rows of every shape within the bounds, each with a Field per column.
TableRows ==
    [ordering : SeqsUpTo(OrderingNames, MaxOrdering),
     filtering : SeqsUpTo(ColumnNames, MaxFiltering),
     search : {<<>>, <<<<"a">>>>},
     field_types : {[name \in ColumnNames |->
                        IF name = <<"a">> THEN type ELSE "string"] :
                    type \in {"integer", "geometry"}}]

RegistryStart ==
    /\ registry = <<>>
    /\ attempted = <<>>
    /\ compiledFrom = <<>>
    /\ lastCall = NoCall
    /\ ret = Raised("none")

RegistryIdle ==
    /\ tables = <<>>
    /\ RegistryStart

QueryIdle ==
    /\ extra = [ordering |-> <<>>, filtering |-> <<>>, search |-> <<>>]
    /\ columns = {}
    /\ ordQuery = NoQuery
    /\ ordResult = NotOrdered
    /\ params = NoParams
    /\ filtResult = NoFilters

\* One Table row of any shape, compiled with and without the cache.
InitIndexes ==
    /\ tables \in [{1} -> TableRows]
    /\ RegistryStart
    /\ QueryIdle
    /\ SchemaIdle

NextIndexes == \E cache \in BOOLEAN : get_model(1, cache)

SpecIndexes == InitIndexes /\ [][NextIndexes]_vars

TableIds == {1, 2}

\* The orderings an edit may save.
SavedOrderings == {<<>>, <<<<"a">>>>}

StartRow ==
    [ordering |-> <<>>, filtering |-> <<<<"a">>>>, search |-> <<>>,
     field_types |-> [name \in ColumnNames |->
                         IF name = <<"a">> THEN "integer" ELSE "string"]]

\* Two Table rows, edited and compiled in any order.
InitRegistry ==
    /\ tables = [id \in TableIds |-> StartRow]
    /\ RegistryStart
    /\ QueryIdle
    /\ SchemaIdle

NextRegistry ==
    \/ \E id \in TableIds, cache \in BOOLEAN : get_model(id, cache)
    \/ \E id \in TableIds, ordering \in SavedOrderings :
          SaveTableOrdering(id, ordering)
    \/ \E id \in TableIds, type \in {"integer", "geometry"} :
          SaveFieldType(id, <<"a">>, type)

SpecRegistry == InitRegistry /\ [][NextRegistry]_vars

\* ------------------------------------------- the query layer's specifications

\* Model.extra as Table.get_model builds it from a Table row.
Extras ==
    [ordering : SeqsUpTo(OrderingNames, MaxOrdering),
     filtering : SeqsUpTo(ColumnNames, MaxFiltering),
     search : {<<>>, <<<<"a">>>>}]

\* The model's fields are the table's Field rows; Table.filtering is not
\* checked against them, so a filtering name may be no field of the model.
ColumnSets == {ColumnNames, {<<"a">>}}

QueryInit ==
    /\ extra \in Extras
    /\ columns \in ColumnSets
    /\ ordQuery = NoQuery
    /\ ordResult = NotOrdered
    /\ params = NoParams
    /\ filtResult = NoFilters

\* apply_ordering reads extra['ordering'] and extra['filtering'] only.
InitOrdering ==
    /\ QueryInit
    /\ RegistryIdle
    /\ SchemaIdle
    /\ extra.search = <<>>
    /\ columns = ColumnNames

NextOrdering == \E query \in SeqsUpTo(RequestNames, MaxQuery) : apply_ordering(query)

SpecOrdering == InitOrdering /\ [][NextOrdering]_vars

\* apply_filters reads extra['filtering'] and extra['search'] only.
InitFilters ==
    /\ QueryInit
    /\ RegistryIdle
    /\ SchemaIdle
    /\ extra.ordering = <<>>

NextFilters == \E filtering \in ParamMappings : apply_filters(filtering)

SpecFilters == InitFilters /\ [][NextFilters]_vars

\* -------------------------------------------- the schema's specifications

\* Whether a Table row compiles and names no filtering column twice.
WellFormed(table) ==
    /\ ~FieldsRaise(table)
    /\ Cardinality(Range(table.filtering)) = Len(table.filtering)

\* A model compiled from any well-formed Table row; no table yet.
InitSchema ==
    /\ cls \in {BuildModel(table) : table \in {t \in TableRows : WellFormed(t)}}
    /\ SchemaStart
    /\ QueryIdle
    /\ RegistryIdle

SchemaNext ==
    \/ \E create \in BOOLEAN, ddl_fails \in BOOLEAN, placeholder \in Placeholders :
          create_table(create, ddl_fails, placeholder)
    \/ \E ddl_fails \in BOOLEAN : create_indexes(ddl_fails)
    \/ analyse_table
    \/ delete_table

SpecSchema == InitSchema /\ [][SchemaNext]_vars

\* The model of a table ordered and filtered by one column.
CountedRow == [StartRow EXCEPT !.ordering = <<<<"a">>>>]

InitCount ==
    /\ cls = BuildModel(CountedRow)
    /\ SchemaStart
    /\ QueryIdle
    /\ RegistryIdle

NextCount ==
    \/ SchemaNext
    \/ \E matches \in BOOLEAN : InsertRow(matches)
    \/ \E matches \in BOOLEAN : DeleteRow(matches)
    \/ \E q \in QuerySets, catalog_fails \in BOOLEAN : count(q, catalog_fails)
    \/ \E q \in QuerySets : NewQuerySet(q)

SpecCount == InitCount /\ [][NextCount]_vars

\* ===================================================================== claims

\* ---------------------------------------------------------------------- C4

\* C4: apply_filters adds an equality predicate on a column only if the
\* column is in the model's filtering list and is a key of the parameters
\* with a non-null value, whose value the predicate carries; a key that is
\* not in the filtering list produces no equality predicate and no error:
\* the only error, filter()'s FieldError, is raised for a declared filtering
\* name that is sent with a value and is no field of the model.
C4_EqualityOnlyForDeclaredKeys ==
    /\ params.called => filtResult.status \in {"ok", "FieldError"}
    /\ \A i \in DOMAIN filtResult.predicates :
          filtResult.predicates[i].kind = "eq" =>
              LET field == filtResult.predicates[i].field
              IN  /\ field \in Range(extra.filtering)
                  /\ field \in DOMAIN params.filtering
                  /\ params.filtering[field] # None
                  /\ filtResult.predicates[i].value = params.filtering[field]
    /\ filtResult.status = "FieldError" =>
          \E key \in Range(extra.filtering) \cap DOMAIN params.filtering :
              /\ params.filtering[key] # None
              /\ key \notin columns

\* A call whose parameters hold a key outside the filtering list, with a
\* value, next to a declared key that produced a predicate.
C4_Witness ==
    /\ params.called
    /\ filtResult.status = "ok"
    /\ \E key \in DOMAIN params.filtering :
          /\ key \notin Range(extra.filtering)
          /\ key # SearchKey
          /\ params.filtering[key] = "v"
    /\ \E i \in DOMAIN filtResult.predicates :
          filtResult.predicates[i].kind = "eq"

\* ---------------------------------------------------------------------- C5

\* The descending marker is one leading hyphen.
StripMarker(field) ==
    IF field # <<>> /\ Head(field) = "-" THEN Tail(field) ELSE field

\* The allowed set as the claim states it: the column names of ordering and
\* filtering, compared without the leading marker and without regard to case.
ClaimedAllowed(field) ==
    Lower(StripMarker(field)) \in
        {Lower(StripMarker(a)) : a \in Range(extra.ordering \o extra.filtering)}

\* C5: apply_ordering keeps exactly the requested fields whose name, without
\* the leading descending marker and compared case-insensitively, is among
\* the ordering and filtering column names, in the caller's order and with
\* the caller's markers.
C5_KeepsExactlyAllowedFields ==
    ordResult.called =>
        ordResult.kept = SelectSeq(ordQuery.query, ClaimedAllowed)

\* ---------------------------------------------------------------------- C6

\* C6: when no requested field is in the allowed set the queryset is ordered
\* by the default ordering verbatim, or not ordered when that is empty; when
\* a requested field is allowed the default ordering is not used.
C6_DefaultOnlyWhenNothingAllowed ==
    ordResult.called =>
        IF \E i \in DOMAIN ordQuery.query : ClaimedAllowed(ordQuery.query[i])
        THEN ordResult.source = "request"
        ELSE IF extra.ordering # <<>>
        THEN ordResult.source = "default" /\ ordResult.order_by = extra.ordering
        ELSE ordResult.source = "none" /\ ordResult.order_by = <<>>

\* ---------------------------------------------------------------------- C7

\* The number of names of filtering that get an index of their own.
IndexedFilteringCount(ordering, filtering) ==
    Cardinality({i \in DOMAIN filtering : ordering # <<filtering[i]>>})

\* C7: the indexes of a compiled model are one composite index over the
\* ordering columns, first and in order, when ordering is non-empty; one
\* single-column index for each filtering column c unless ordering = [c];
\* one GinIndex over search_data, last, when search is non-empty; and no
\* other.  With ordering = [x] and filtering = [x] one index references x.
C7_DerivedIndexSet ==
    \A id \in DOMAIN registry :
        LET ordering == tables[id].ordering
            filtering == tables[id].filtering
            search == tables[id].search
            indexes == registry[id].indexes
        IN  /\ Len(indexes) = (IF ordering # <<>> THEN 1 ELSE 0)
                              + IndexedFilteringCount(ordering, filtering)
                              + (IF search # <<>> THEN 1 ELSE 0)
            /\ ordering # <<>> =>
                  indexes[1] = [kind |-> "Index", fields |-> ordering]
            /\ \A i \in DOMAIN filtering :
                  ordering # <<filtering[i]>> =>
                      \E j \in DOMAIN indexes :
                          indexes[j] = [kind |-> "Index",
                                        fields |-> <<filtering[i]>>]
            /\ search # <<>> =>
                  indexes[Len(indexes)] =
                      [kind |-> "GinIndex", fields |-> <<<<"search_data">>>>]
            /\ \A x \in ColumnNames :
                  ordering = <<x>> /\ filtering = <<x>> =>
                      Cardinality({j \in DOMAIN indexes :
                                      x \in Range(indexes[j].fields)}) = 1

\* A model compiled from ordering = [a], filtering = [a] and a search list.
C7_Witness ==
    /\ 1 \in DOMAIN registry
    /\ tables[1].ordering = <<<<"a">>>>
    /\ tables[1].filtering = <<<<"a">>>>
    /\ tables[1].search # <<>>
    /\ Len(registry[1].indexes) = 2

\* ---------------------------------------------------------------------- C8

\* What a call with cache = true on an id that has an entry does: it returns
\* the entry and leaves the registry as it was.
CachedCallReturnsEntry ==
    (/\ lastCall.called
     /\ lastCall.cache
     /\ lastCall.id \in DOMAIN lastCall.registry_before) =>
        /\ lastCall.outcome = "cached"
        /\ ret = Returned(lastCall.registry_before[lastCall.id])
        /\ registry = lastCall.registry_before

\* C8: the entry of a table id is the model compiled from the row as it was
\* at the most recent call that found no entry or passed cache = false and
\* compiled (a call whose compilation raises builds no class and leaves the
\* registry alone, C10); a call with cache = true on an id with an entry
\* returns the entry and leaves the registry unchanged, stale or not.
C8_EntryIsFromLastCompilation ==
    /\ DOMAIN registry = DOMAIN compiledFrom
    /\ \A id \in DOMAIN registry :
          registry[id] = BuildModel(compiledFrom[id])
    /\ CachedCallReturnsEntry

\* A cached call that returned a stale model: the row was edited after the
\* compilation and would compile to another model now.
C8_Witness ==
    /\ lastCall.called
    /\ lastCall.outcome = "cached"
    /\ ~FieldsRaise(tables[lastCall.id])
    /\ ret.model # <<BuildModel(tables[lastCall.id])>>
    /\ registry[lastCall.id] = BuildModel(compiledFrom[lastCall.id])

\* --------------------------------------------------------------------- C10

\* C10: a call that compiles (no entry, or cache = false) a table with a Field
\* whose type is no key of FIELD_TYPES raises, returns no model and leaves
\* the registry as it was before the call.
C10_UnknownTypeLeavesRegistry ==
    (/\ lastCall.called
     /\ ~(lastCall.cache /\ lastCall.id \in DOMAIN lastCall.registry_before)
     /\ FieldsRaise(attempted[lastCall.id])) =>
        /\ ret = Raised("KeyError")
        /\ registry = lastCall.registry_before

\* A call with cache = false on a table that has an entry and, by now, a
\* Field of an unknown type.
C10_Witness ==
    /\ lastCall.called
    /\ ~lastCall.cache
    /\ lastCall.id \in DOMAIN lastCall.registry_before
    /\ FieldsRaise(attempted[lastCall.id])
    /\ ret.raised = "KeyError"

\* ---------------------------------------------------------------------- C1

\* C1: a count() that computes its value on a query with no filter predicate
\* reads the catalog's estimate first and runs the exact COUNT only when that
\* lookup raises; on a query with a filter predicate it runs the exact COUNT
\* and does not read the catalog.
C1_CatalogOnlyWhenUnfiltered ==
    (lastOp.op = "count" /\ lastOp.before = <<>>) =>
        IF lastOp.q = "all"
        THEN /\ lastOp.path \in {"catalog", "catalog_then_exact"}
             /\ lastOp.path = "catalog_then_exact" <=>
                    (lastOp.db_failed \/ ~db.exists)
             /\ lastOp.path = "catalog" => lastOp.result = <<db.reltuples>>
             /\ (lastOp.path = "catalog_then_exact" /\ ~lastOp.raised) =>
                    lastOp.result = <<db.rows>>
        ELSE /\ lastOp.path = "exact"
             /\ ~lastOp.raised => lastOp.result = <<db.matching>>

\* An unfiltered count whose catalog lookup raised and that returned the
\* exact number of rows, which the catalog's estimate is not.
C1_Witness ==
    /\ lastOp.op = "count"
    /\ lastOp.q = "all"
    /\ lastOp.path = "catalog_then_exact"
    /\ lastOp.result = <<db.rows>>
    /\ db.rows > 0
    /\ db.reltuples # db.rows

\* ---------------------------------------------------------------------- C2

\* C2: on a table that exists and that analyse_table never ran on, an
\* unfiltered count() falls back to the exact COUNT and returns the number
\* of rows.
C2_UnanalysedCountIsExact ==
    (/\ lastOp.op = "count"
     /\ lastOp.q = "all"
     /\ lastOp.before = <<>>
     /\ db.exists
     /\ ~db.analysed) =>
        /\ lastOp.path = "catalog_then_exact"
        /\ lastOp.result = <<db.rows>>

\* ---------------------------------------------------------------------- C3

\* C3: a count() on an instance whose count() has returned before does not
\* consult the database and returns what the first such call returned, 0
\* included, whatever has happened to the table since.
C3_CountIsMemoized ==
    /\ (lastOp.op = "count" /\ lastOp.before # <<>>) =>
          /\ lastOp.path = "memo"
          /\ ~lastOp.raised
          /\ lastOp.result = lastOp.before
          /\ lastOp.result = first_count[lastOp.q]
    /\ \A q \in QuerySets :
          /\ first_count[q] # <<>> => qs_count[q] = first_count[q]
          \* a call that raised has stored nothing
          /\ first_count[q] = <<>> => qs_count[q] = <<>>

\* A repeated unfiltered count that returned the 0 of the first call on a
\* table that has rows by now and was analysed since.
C3_Witness ==
    /\ lastOp.op = "count"
    /\ lastOp.q = "all"
    /\ lastOp.before = <<0>>
    /\ lastOp.result = <<0>>
    /\ db.rows > 0
    /\ db.analysed
    /\ db.reltuples = db.rows

\* ---------------------------------------------------------------------- C9

\* C9: create_table(create_indexes=False) creates the table with no index;
\* on the normal return and on an exception of the DDL alike the class's
\* index list is what it was before the call, the derived list; and a
\* create_indexes call on the table so created adds the whole derived list.
C9_CreateTableKeepsIndexes ==
    /\ meta_indexes = cls.indexes
    /\ lastOp.op = "create_table" => meta_indexes = lastOp.indexes_before
    /\ (lastOp.op = "create_table" /\ ~lastOp.create_indexes /\ ~lastOp.raised) =>
          db.exists /\ db.indexes = <<>>
    /\ (/\ lastOp.op = "create_indexes"
        /\ lastOp.indexes_before = <<>>
        /\ db.exists
        /\ ~lastOp.db_failed) =>
          ~lastOp.raised /\ db.indexes = cls.indexes

\* create_indexes added a derived list of two indexes or more to a table
\* created without, after a create_table(create_indexes=False) had raised.
C9_Witness ==
    /\ lastOp.op = "create_indexes"
    /\ ~lastOp.raised
    /\ lastOp.indexes_before = <<>>
    /\ createRaised
    /\ Len(cls.indexes) >= 2
    /\ db.indexes = cls.indexes

====
